---------------------------- MODULE Spec2Model ----------------------------
(***************************************************************************)
(* Model of server.js: the Shopify-order webhook that writes one Airtable  *)
(* order record and one Airtable record per line item.                     *)
(*                                                                         *)
(* JavaScript values are records [t, s, n, d]:                             *)
(*   t : "undefined" | "null" | "string" | "number" | "NaN" | "boolean"    *)
(*       | "array"                                                         *)
(*   s : the characters of a string, a sequence of one-character strings   *)
(*   n, d : a number is the decimal n / 10^d with d minimal; a boolean is  *)
(*       n = 1 or n = 0; a one-element array holds the record id n         *)
(* Numbers are exact decimals; the inputs are chosen without exponents,    *)
(* "Infinity" and hexadecimal text, which parseFloat treats specially.     *)
(***************************************************************************)
EXTENDS Integers, Sequences, FiniteSets, TLC

\* ------------------------------------------------------------ bounds ----
\* longest line_items sequence of an order
MaxItems == 2
\* number of webhook invocations in flight in the concurrent specification
NumInv == 2
\* length of the line_items sequence of the orders of the concurrent
\* specification
ConcurrentItems == 1

\* ----------------------------------------------------- JavaScript values
Undef == [t |-> "undefined", s |-> <<>>, n |-> 0, d |-> 0]
Null == [t |-> "null", s |-> <<>>, n |-> 0, d |-> 0]
NaN == [t |-> "NaN", s |-> <<>>, n |-> 0, d |-> 0]
Str(chars) == [t |-> "string", s |-> chars, n |-> 0, d |-> 0]
Bool(b) == [t |-> "boolean", s |-> <<>>, n |-> IF b THEN 1 ELSE 0, d |-> 0]
Arr1(id) == [t |-> "array", s |-> <<>>, n |-> id, d |-> 0]

RECURSIVE Normalize(_, _)
\* the decimal n / 10^d written with the fewest decimals
Normalize(n, d) ==
  IF d > 0 /\ n % 10 = 0 THEN Normalize(n \div 10, d - 1) ELSE <<n, d>>

Num(n, d) ==
  LET nd == Normalize(n, d)
  IN  [t |-> "number", s |-> <<>>, n |-> nd[1], d |-> nd[2]]

EmptyStr == Str(<<>>)

\* JavaScript truthiness: undefined, null, "", 0, NaN and false are falsy
Truthy(v) ==
  CASE v.t = "undefined" -> FALSE
    [] v.t = "null" -> FALSE
    [] v.t = "NaN" -> FALSE
    [] v.t = "string" -> v.s # <<>>
    [] v.t = "number" -> v.n # 0
    [] v.t = "boolean" -> v.n = 1
    [] OTHER -> TRUE

\* a || b
Or(a, b) == IF Truthy(a) THEN a ELSE b

\* ------------------------------------------------------------- text ----
DigitChars == <<"0", "1", "2", "3", "4", "5", "6", "7", "8", "9">>
IsDigit(c) == \E k \in 1..10 : DigitChars[k] = c
DigitVal(c) == (CHOOSE k \in 1..10 : DigitChars[k] = c) - 1
IsSpace(c) == c = " "

RECURSIVE NatToChars(_)
\* the decimal digits of a natural number
NatToChars(k) ==
  IF k < 10 THEN <<DigitChars[k + 1]>>
  ELSE NatToChars(k \div 10) \o <<DigitChars[(k % 10) + 1]>>

RECURSIVE Pow10(_)
Pow10(d) == IF d = 0 THEN 1 ELSE 10 * Pow10(d - 1)

RECURSIVE PadZeros(_, _)
PadZeros(chars, width) ==
  IF Len(chars) >= width THEN chars ELSE PadZeros(<<"0">> \o chars, width)

\* Number.prototype.toString of the decimal n / 10^d
NumToChars(n, d) ==
  LET a == IF n < 0 THEN 0 - n ELSE n
      sign == IF n < 0 THEN <<"-">> ELSE <<>>
      whole == NatToChars(a \div Pow10(d))
      frac == IF d = 0 THEN <<>>
              ELSE <<".">> \o PadZeros(NatToChars(a % Pow10(d)), d)
  IN  sign \o whole \o frac

\* String(v), the conversion a template literal `${v}` applies
TemplateChars(v) ==
  CASE v.t = "undefined" -> <<"u", "n", "d", "e", "f", "i", "n", "e", "d">>
    [] v.t = "null" -> <<"n", "u", "l", "l">>
    [] v.t = "NaN" -> <<"N", "a", "N">>
    [] v.t = "string" -> v.s
    [] v.t = "number" -> NumToChars(v.n, v.d)
    [] v.t = "boolean" -> IF v.n = 1 THEN <<"t", "r", "u", "e">>
                          ELSE <<"f", "a", "l", "s", "e">>
    [] OTHER -> NatToChars(v.n)

\* v?.toString(): undefined for undefined and null, else the text of v
OptToString(v) ==
  IF v.t \in {"undefined", "null"} THEN Undef ELSE Str(TemplateChars(v))

RECURSIVE TrimLeft(_)
TrimLeft(chars) ==
  IF chars # <<>> /\ IsSpace(Head(chars)) THEN TrimLeft(Tail(chars)) ELSE chars

RECURSIVE TrimRight(_)
TrimRight(chars) ==
  IF chars # <<>> /\ IsSpace(chars[Len(chars)])
  THEN TrimRight(SubSeq(chars, 1, Len(chars) - 1))
  ELSE chars

\* String.prototype.trim
Trim(chars) == TrimRight(TrimLeft(chars))

RECURSIVE DigitPrefix(_)
\* the longest prefix of chars made of digits
DigitPrefix(chars) ==
  IF chars # <<>> /\ IsDigit(Head(chars))
  THEN <<Head(chars)>> \o DigitPrefix(Tail(chars))
  ELSE <<>>

RECURSIVE DigitsToNat(_)
DigitsToNat(chars) ==
  IF chars = <<>> THEN 0
  ELSE 10 * DigitsToNat(SubSeq(chars, 1, Len(chars) - 1))
       + DigitVal(chars[Len(chars)])

\* the decimal literal at the start of chars: [ok, n, d, rest]
ScanDecimal(chars) ==
  LET signed == chars # <<>> /\ Head(chars) \in {"-", "+"}
      neg == signed /\ Head(chars) = "-"
      body == IF signed THEN Tail(chars) ELSE chars
      whole == DigitPrefix(body)
      afterWhole == SubSeq(body, Len(whole) + 1, Len(body))
      hasPoint == afterWhole # <<>> /\ Head(afterWhole) = "."
      frac == IF hasPoint THEN DigitPrefix(Tail(afterWhole)) ELSE <<>>
      usePoint == hasPoint /\ (whole # <<>> \/ frac # <<>>)
      rest == IF usePoint
              THEN SubSeq(afterWhole, Len(frac) + 2, Len(afterWhole))
              ELSE afterWhole
      mag == DigitsToNat(whole \o frac)
  IN  [ok |-> whole # <<>> \/ frac # <<>>,
       n |-> IF neg THEN 0 - mag ELSE mag,
       d |-> Len(frac),
       rest |-> rest]

\* parseFloat(v): String(v), leading white space skipped, then the longest
\* decimal literal; NaN when there is none
ParseFloat(v) ==
  LET scan == ScanDecimal(TrimLeft(TemplateChars(v)))
  IN  IF scan.ok THEN Num(scan.n, scan.d) ELSE NaN

\* Number(v), the conversion the * operator applies to an operand
ToNumber(v) ==
  CASE v.t = "undefined" -> NaN
    [] v.t = "null" -> Num(0, 0)
    [] v.t = "NaN" -> NaN
    [] v.t = "number" -> v
    [] v.t = "boolean" -> Num(v.n, 0)
    [] v.t = "string" ->
         LET chars == Trim(v.s)
             scan == ScanDecimal(chars)
         IN  IF chars = <<>> THEN Num(0, 0)
             ELSE IF scan.ok /\ scan.rest = <<>> THEN Num(scan.n, scan.d)
             ELSE NaN
    [] OTHER -> NaN

\* a * b
Mul(a, b) ==
  LET x == ToNumber(a)
      y == ToNumber(b)
  IN  IF x.t = "NaN" \/ y.t = "NaN" THEN NaN ELSE Num(x.n * y.n, x.d + y.d)

\* ------------------------------------------------------- field mappers
\* Array.prototype.join(', ') over the parts Boolean keeps
RECURSIVE JoinParts(_)
JoinParts(parts) ==
  IF parts = <<>> THEN <<>>
  ELSE IF ~Truthy(Head(parts)) THEN JoinParts(Tail(parts))
  ELSE LET rest == JoinParts(Tail(parts))
       IN  IF rest = <<>> THEN TemplateChars(Head(parts))
           ELSE TemplateChars(Head(parts)) \o <<",", " ">> \o rest

\* an address object; present = FALSE is an absent (undefined or null) address
Address(present, first, last, phone, a1, a2, city, province, zip, country) ==
  [present |-> present, first_name |-> first, last_name |-> last,
   phone |-> phone, address1 |-> a1, address2 |-> a2, city |-> city,
   province |-> province, zip |-> zip, country |-> country]

NoAddress ==
  Address(FALSE, Undef, Undef, Undef, Undef, Undef, Undef, Undef, Undef, Undef)

formatAddress(address) ==
  IF ~address.present THEN EmptyStr
  ELSE Str(JoinParts(<<address.address1, address.address2, address.city,
                       address.province, address.zip, address.country>>))

\* the keys the "Remove empty fields" loop deletes
IsEmptyField(v) == v = EmptyStr \/ v.t = "null" \/ v.t = "undefined"

\* Object.keys(fields).forEach(delete the empty ones)
RemoveEmptyFields(fields) ==
  [k \in {key \in DOMAIN fields : ~IsEmptyField(fields[key])} |-> fields[k]]

\* JSON.stringify of one value: NaN is written as null
JsonValue(v) == IF v.t = "NaN" THEN Null ELSE v

\* JSON.stringify of the fields object: undefined values are left out
JsonFields(fields) ==
  [k \in {key \in DOMAIN fields : fields[key].t # "undefined"} |->
     JsonValue(fields[k])]

\* 'Total Price': parseFloat(order.total_price || 0)
TotalPrice(order) == ParseFloat(Or(order.total_price, Num(0, 0)))

\* 'Order ID': order.order_number?.toString() || order.id?.toString()
OrderIdField(order) ==
  Or(OptToString(order.order_number), OptToString(order.id))

\* payload.fields of createOrderRecord before the empty fields are removed
OrderPayload(order) ==
  LET billingAddress == order.billing_address
  IN  [key \in {"Order ID", "Billing Name", "Phone", "Email", "Total Price",
                "Currency", "Order Date", "Financial Status",
                "Fulfillment Status", "Tags", "Customer ID",
                "Shipping Address", "Billing Address"} |->
        CASE key = "Order ID" -> OrderIdField(order)
          [] key = "Billing Name" ->
               Str(Trim(TemplateChars(Or(billingAddress.first_name, EmptyStr))
                        \o <<" ">>
                        \o TemplateChars(Or(billingAddress.last_name, EmptyStr))))
          [] key = "Phone" -> Or(Or(billingAddress.phone, order.phone), EmptyStr)
          [] key = "Email" -> Or(order.email, EmptyStr)
          [] key = "Total Price" -> TotalPrice(order)
          [] key = "Currency" -> Or(order.currency, Str(<<"U", "S", "D">>))
          [] key = "Order Date" -> order.created_at
          [] key = "Financial Status" -> Or(order.financial_status, EmptyStr)
          [] key = "Fulfillment Status" ->
               Or(order.fulfillment_status,
                  Str(<<"u", "n", "f", "u", "l", "f", "i", "l", "l", "e", "d">>))
          [] key = "Tags" -> Or(order.tags, EmptyStr)
          [] key = "Customer ID" -> Or(OptToString(order.customer_id), EmptyStr)
          [] key = "Shipping Address" -> formatAddress(order.shipping_address)
          [] OTHER -> formatAddress(billingAddress)]

\* the body createOrderRecord posts to the orders table
OrderBody(order) == JsonFields(RemoveEmptyFields(OrderPayload(order)))

\* `${orderNumber}-${lineItemIndex}`
LineItemId(orderNumber, lineItemIndex) ==
  Str(TemplateChars(orderNumber) \o <<"-">> \o NatToChars(lineItemIndex))

\* payload.fields of createLineItemRecord before the empty fields are removed
LineItemPayload(lineItem, orderRecordId, orderNumber, lineItemIndex) ==
  [key \in {"Line Item ID", "Order ID", "Item Name", "Line Item Quantity",
            "Line Item Price", "Total Line Price", "SKU", "Product ID",
            "Variant ID", "Vendor", "Product Type", "Requires Shipping",
            "Taxable", "Gift Card"} |->
    CASE key = "Line Item ID" -> LineItemId(orderNumber, lineItemIndex)
      [] key = "Order ID" -> Arr1(orderRecordId)
      [] key = "Item Name" -> lineItem.name
      [] key = "Line Item Quantity" -> lineItem.quantity
      [] key = "Line Item Price" -> ParseFloat(lineItem.price)
      [] key = "Total Line Price" ->
           Mul(ParseFloat(lineItem.price), lineItem.quantity)
      [] key = "SKU" -> Or(lineItem.sku, EmptyStr)
      [] key = "Product ID" -> Or(OptToString(lineItem.product_id), EmptyStr)
      [] key = "Variant ID" -> Or(OptToString(lineItem.variant_id), EmptyStr)
      [] key = "Vendor" -> Or(lineItem.vendor, EmptyStr)
      [] key = "Product Type" -> Or(lineItem.product_type, EmptyStr)
      [] key = "Requires Shipping" -> Or(lineItem.requires_shipping, Bool(FALSE))
      [] key = "Taxable" -> Or(lineItem.taxable, Bool(FALSE))
      [] OTHER -> Or(lineItem.gift_card, Bool(FALSE))]

\* the body createLineItemRecord posts to the line-items table
LineItemBody(lineItem, orderRecordId, orderNumber, lineItemIndex) ==
  JsonFields(RemoveEmptyFields(
    LineItemPayload(lineItem, orderRecordId, orderNumber, lineItemIndex)))

\* -------------------------------------------------------------- inputs
\* a line item of the webhook body
LineItem(name, quantity, price, sku, productId, variantId, vendor, productType, requiresShipping, taxable, giftCard) ==
  [name |-> name, quantity |-> quantity, price |-> price, sku |-> sku,
   product_id |-> productId, variant_id |-> variantId, vendor |-> vendor,
   product_type |-> productType, requires_shipping |-> requiresShipping,
   taxable |-> taxable, gift_card |-> giftCard]

\* a fully populated line item: price "19.99", quantity 3
GoodItem ==
  LineItem(Str(<<"T", "e", "e">>), Num(3, 0), Str(<<"1", "9", ".", "9", "9">>),
           Str(<<"S", "1">>), Num(11, 0), Num(12, 0), Str(<<"V">>),
           Str(<<"T">>), Bool(TRUE), Bool(TRUE), Bool(FALSE))

\* a line item whose price is no number: price "abc", quantity "x"
BadPriceItem ==
  LineItem(Str(<<"M", "u", "g">>), Str(<<"x">>), Str(<<"a", "b", "c">>),
           EmptyStr, Null, Undef, Undef, Undef, Undef, Bool(FALSE), Undef)

\* a line item with neither price nor quantity
BareItem ==
  LineItem(Undef, Undef, Undef, Undef, Undef, Undef, Undef, Undef, Undef,
           Undef, Undef)

LineItems == {GoodItem, BadPriceItem, BareItem}

RECURSIVE SeqsUpTo(_, _)
\* the sequences over S of length at most k
SeqsUpTo(S, k) ==
  IF k = 0 THEN {<<>>}
  ELSE LET shorter == SeqsUpTo(S, k - 1)
       IN  shorter \cup {Append(q, x) : q \in {r \in shorter : Len(r) = k - 1},
                                          x \in S}

\* order.line_items: an array, or absent (present = FALSE)
LineItemLists ==
  {[present |-> FALSE, items |-> <<>>]}
    \cup {[present |-> TRUE, items |-> q] : q \in SeqsUpTo(LineItems, MaxItems)}

\* the order fields the claims do not single out, varied together
AbsentProfile ==
  [email |-> Undef, phone |-> Undef, currency |-> Undef, created_at |-> Undef,
   financial_status |-> Undef, fulfillment_status |-> Undef, tags |-> Undef,
   customer_id |-> Undef, billing_address |-> NoAddress,
   shipping_address |-> NoAddress]

EmptyProfile ==
  [email |-> EmptyStr, phone |-> Null, currency |-> EmptyStr,
   created_at |-> Null, financial_status |-> EmptyStr,
   fulfillment_status |-> Null, tags |-> EmptyStr, customer_id |-> Null,
   billing_address |->
     Address(TRUE, Str(<<" ">>), Undef, EmptyStr, EmptyStr, Null, Undef,
             EmptyStr, Undef, Null),
   shipping_address |->
     Address(TRUE, Undef, Undef, Undef, Undef, Undef, Undef, Undef, Undef,
             Undef)]

FullProfile ==
  [email |-> Str(<<"a", "@", "b">>), phone |-> Str(<<"5", "5">>),
   currency |-> Str(<<"E", "U", "R">>), created_at |-> Str(<<"2", "0", "2", "4">>),
   financial_status |-> Str(<<"p", "a", "i", "d">>),
   fulfillment_status |-> Str(<<"s", "e", "n", "t">>),
   tags |-> Str(<<"v", "i", "p">>), customer_id |-> Num(42, 0),
   billing_address |->
     Address(TRUE, Str(<<"A", "l">>), Str(<<"B", "o">>), Str(<<"7", "7">>),
             Str(<<"1", " ", "M", "a", "i", "n">>), Undef, Str(<<"R", "o", "m", "e">>),
             Undef, Str(<<"0", "0", "1">>), Str(<<"I", "T">>)),
   shipping_address |->
     Address(TRUE, Undef, Undef, Undef, Str(<<"a", "1">>), Str(<<"a", "2">>),
             Str(<<"c">>), Str(<<"p">>), Str(<<"z">>), Str(<<"I", "T">>))]

Profiles == {AbsentProfile, EmptyProfile, FullProfile}

OrderNumbers == {Undef, Num(1001, 0), EmptyStr}
OrderIds == {Undef, Num(7, 0)}
TotalPrices ==
  {Undef, Num(0, 0), Str(<<"1", "9", ".", "9", "9">>), Str(<<"a", "b", "c">>),
   Str(<<"1", "2", "x">>)}

\* the webhook body; customer_id stands for order.customer?.id
Order(orderNumber, id, totalPrice, rest, lineItems) ==
  [order_number |-> orderNumber, id |-> id, total_price |-> totalPrice,
   email |-> rest.email, phone |-> rest.phone, currency |-> rest.currency,
   created_at |-> rest.created_at, financial_status |-> rest.financial_status,
   fulfillment_status |-> rest.fulfillment_status, tags |-> rest.tags,
   customer_id |-> rest.customer_id, billing_address |-> rest.billing_address,
   shipping_address |-> rest.shipping_address, line_items |-> lineItems]

Orders ==
  {Order(on, id, tp, rest, li) :
     on \in OrderNumbers, id \in OrderIds, tp \in TotalPrices,
     rest \in Profiles, li \in LineItemLists}

RECURSIVE Repeat(_, _)
\* k copies of x
Repeat(x, k) == IF k = 0 THEN <<>> ELSE Append(Repeat(x, k - 1), x)

\* the order invocation p of the concurrent specification receives: order
\* number 1000 + p, id 7 and ConcurrentItems line items
ConcurrentOrder(p) ==
  Order(Num(1000 + p, 0), Num(7, 0), Undef, AbsentProfile,
        [present |-> TRUE, items |-> Repeat(GoodItem, ConcurrentItems)])

\* --------------------------------------------------------------- state
VARIABLES
  procs,        \* the webhook invocations of this run
  order,        \* order[p]: req.body of invocation p
  pc,           \* pc[p]: where invocation p stands
  i,            \* i[p]: the loop variable of processShopifyOrder
  orderRecord,  \* orderRecord[p]: id of the record createOrderRecord returned
  net,          \* net[p]: "idle", "request" (fetch sent) or "response"
  sent,         \* sent[p]: the create-record calls p issued, oldest first
  got,          \* got[p]: the responses the store gave p, oldest first
  store,        \* the records the store holds, in creation order
  nextId,       \* the id the store gives the next record
  httpStatus    \* httpStatus[p]: status of the webhook's reply, 0 = none yet

vars ==
  <<procs, order, pc, i, orderRecord, net, sent, got, store, nextId, httpStatus>>

InitRest ==
  /\ pc = [p \in procs |-> "pending"]
  /\ i = [p \in procs |-> 0]
  /\ orderRecord = [p \in procs |-> 0]
  /\ net = [p \in procs |-> "idle"]
  /\ sent = [p \in procs |-> <<>>]
  /\ got = [p \in procs |-> <<>>]
  /\ store = <<>>
  /\ nextId = 1
  /\ httpStatus = [p \in procs |-> 0]

\* one webhook invocation, any order
Init ==
  /\ procs = {1}
  /\ order \in [procs -> Orders]
  /\ InitRest

\* NumInv webhook invocations in flight together
InitConcurrent ==
  /\ procs = 1..NumInv
  /\ order = [p \in procs |-> ConcurrentOrder(p)]
  /\ InitRest

\* -------------------------------------------------------------- actions
\* a create-record call: the fetch of createOrderRecord / createLineItemRecord
Call(table, index, fields) ==
  [table |-> table, method |-> "POST", index |-> index, fields |-> fields]

Last(q) == q[Len(q)]

\* mutant: createOrderRecord without its response.ok check
OrderCreateUnchecked(response) == FALSE

\* if (!response.ok) of createOrderRecord
OrderCreateFailed(response) == ~response.ok

\* mutant: createLineItemRecord without its response.ok check
LineItemCreateUnchecked(response) == FALSE

\* if (!response.ok) of createLineItemRecord
LineItemCreateFailed(response) == ~response.ok

\* mutant: i < order.line_items.length - 1
LoopConditionOffByOne(p) == i[p] < Len(order[p].line_items.items) - 1

\* i < order.line_items.length
LoopCondition(p) == i[p] < Len(order[p].line_items.items)

\* mutant: the 0-based i passed as lineItemIndex
LineItemIndexZeroBased(p) == i[p]

\* the lineItemIndex argument, i + 1
LineItemIndex(p) == i[p] + 1

\* mutant: orderRecord kept in one module-level variable, which holds the
\* order record created last by any invocation
OrderRecordIdShared(p) ==
  orderRecord[CHOOSE q \in procs : \A r \in procs : orderRecord[q] >= orderRecord[r]]

\* the orderRecordId argument, orderRecord.id
OrderRecordId(p) == orderRecord[p]

\* mutant: the loop variable is not advanced, the same item is sent again
NextLoopIndexStuck(p) == i[p]

\* i++
NextLoopIndex(p) == i[p] + 1

\* the handler's catch block: res.status(500)
Fail(p) ==
  /\ pc' = [pc EXCEPT ![p] = "failed"]
  /\ httpStatus' = [httpStatus EXCEPT ![p] = 500]

\* POST /webhook/shopify/orders up to the fetch of createOrderRecord
CreateOrderRecord(p) ==
  /\ pc[p] = "pending"
  /\ sent' = [sent EXCEPT ![p] = Append(@, Call("orders", 0, OrderBody(order[p])))]
  /\ net' = [net EXCEPT ![p] = "request"]
  /\ pc' = [pc EXCEPT ![p] = "awaitOrder"]
  /\ UNCHANGED <<procs, order, i, orderRecord, got, store, nextId, httpStatus>>

\* the store answers the call of p that is in flight: it creates the record
\* and returns its id, or it rejects the call and creates nothing
StoreRespond(p) ==
  /\ net[p] = "request"
  /\ net' = [net EXCEPT ![p] = "response"]
  /\ \E ok \in BOOLEAN :
       IF ok
       THEN /\ store' = Append(store, [id |-> nextId, by |-> p,
                                       table |-> Last(sent[p]).table,
                                       fields |-> Last(sent[p]).fields])
            /\ nextId' = nextId + 1
            /\ got' = [got EXCEPT ![p] = Append(@, [ok |-> TRUE, id |-> nextId])]
       ELSE /\ got' = [got EXCEPT ![p] = Append(@, [ok |-> FALSE, id |-> 0])]
            /\ UNCHANGED <<store, nextId>>
  /\ UNCHANGED <<procs, order, pc, i, orderRecord, sent, httpStatus>>

\* createOrderRecord after its fetch: throw, or return the created record
OrderResponse(p) ==
  /\ pc[p] = "awaitOrder"
  /\ net[p] = "response"
  /\ net' = [net EXCEPT ![p] = "idle"]
  /\ IF OrderCreateFailed(Last(got[p]))
     THEN /\ Fail(p)
          /\ UNCHANGED orderRecord
     ELSE /\ orderRecord' = [orderRecord EXCEPT ![p] = Last(got[p]).id]
          /\ pc' = [pc EXCEPT ![p] = "loop"]
          /\ UNCHANGED httpStatus
  /\ UNCHANGED <<procs, order, i, sent, got, store, nextId>>

\* the head of the for loop: order.line_items.length throws a TypeError when
\* line_items is absent; else the next createLineItemRecord up to its fetch,
\* or the end of processShopifyOrder and res.status(200)
LoopStep(p) ==
  /\ pc[p] = "loop"
  /\ IF ~order[p].line_items.present
     THEN /\ Fail(p)
          /\ UNCHANGED <<net, sent>>
     ELSE IF LoopCondition(p)
     THEN /\ sent' = [sent EXCEPT ![p] =
                 Append(@, Call("line_items", LineItemIndex(p),
                                LineItemBody(order[p].line_items.items[i[p] + 1],
                                             OrderRecordId(p),
                                             order[p].order_number,
                                             LineItemIndex(p))))]
          /\ net' = [net EXCEPT ![p] = "request"]
          /\ pc' = [pc EXCEPT ![p] = "awaitItem"]
          /\ UNCHANGED httpStatus
     ELSE /\ pc' = [pc EXCEPT ![p] = "done"]
          /\ httpStatus' = [httpStatus EXCEPT ![p] = 200]
          /\ UNCHANGED <<net, sent>>
  /\ UNCHANGED <<procs, order, i, orderRecord, got, store, nextId>>

\* createLineItemRecord after its fetch: throw, or return and i++
LineItemResponse(p) ==
  /\ pc[p] = "awaitItem"
  /\ net[p] = "response"
  /\ net' = [net EXCEPT ![p] = "idle"]
  /\ IF LineItemCreateFailed(Last(got[p]))
     THEN /\ Fail(p)
          /\ UNCHANGED i
     ELSE /\ i' = [i EXCEPT ![p] = NextLoopIndex(p)]
          /\ pc' = [pc EXCEPT ![p] = "loop"]
          /\ UNCHANGED httpStatus
  /\ UNCHANGED <<procs, order, orderRecord, sent, got, store, nextId>>

Next ==
  \E p \in procs :
    \/ CreateOrderRecord(p)
    \/ StoreRespond(p)
    \/ OrderResponse(p)
    \/ LoopStep(p)
    \/ LineItemResponse(p)

Spec == Init /\ [][Next]_vars

SpecConcurrent == InitConcurrent /\ [][Next]_vars

\* ---------------------------------------------------------- properties
Items(p) == order[p].line_items.items
ItemCount(p) == Len(Items(p))
Terminated(p) == pc[p] \in {"done", "failed"}
AllOk(responses) == \A j \in 1..Len(responses) : responses[j].ok
Absent(v) == v.t \in {"undefined", "null"}

\* the per-order processing state of the specification's state machine
Status(p) ==
  CASE pc[p] \in {"pending", "awaitOrder"} -> "pending"
    [] pc[p] \in {"loop", "awaitItem"} -> "order-created"
    [] pc[p] = "done" -> "all-items-processed"
    [] OTHER -> "failed"

\* C1: an invocation whose order has N >= 1 line items and whose create calls
\* all succeed ends successfully having issued exactly N + 1 create calls:
\* the first to the orders table, call j + 1 the line-items call for the item
\* at position j; and a call is issued only when every earlier call of the
\* invocation has been answered (sequential, not concurrent).
C1_CallsOnFullSuccess ==
  \A p \in procs :
    /\ Len(sent[p]) - Len(got[p]) \in {0, 1}
    /\ (Terminated(p) /\ order[p].line_items.present /\ ItemCount(p) >= 1
        /\ AllOk(got[p]))
       => /\ pc[p] = "done"
          /\ Len(sent[p]) = ItemCount(p) + 1
          /\ sent[p][1].table = "orders"
          /\ \A j \in 1..ItemCount(p) :
               /\ sent[p][j + 1].table = "line_items"
               /\ sent[p][j + 1].fields =
                    LineItemBody(Items(p)[j], got[p][1].id,
                                 order[p].order_number, j)

\* C1 witness: a two-or-more-item order with different first and second
\* items has been processed to the end
C1_Witness ==
  \E p \in procs :
    /\ pc[p] = "done"
    /\ ItemCount(p) >= 2
    /\ Items(p)[1] # Items(p)[2]
    /\ Len(sent[p]) = ItemCount(p) + 1

\* C2: a line-items call is issued only after the order call of the same
\* invocation was answered with success; when the order call is answered
\* with a non-success response the invocation fails having issued that one
\* call only.
C2_NoItemsWithoutOrder ==
  \A p \in procs :
    /\ (\E j \in 1..Len(sent[p]) : sent[p][j].table = "line_items")
       => /\ sent[p][1].table = "orders"
          /\ Len(got[p]) >= 1
          /\ got[p][1].ok
    /\ (Len(got[p]) >= 1 /\ ~got[p][1].ok)
       => /\ Len(sent[p]) = 1
          /\ \/ pc[p] = "failed"
             \/ pc[p] = "awaitOrder" /\ net[p] = "response"

\* C2 witness: an order with line items failed on its order call
C2_Witness ==
  \E p \in procs :
    /\ pc[p] = "failed"
    /\ ItemCount(p) >= 1
    /\ Len(got[p]) = 1
    /\ ~got[p][1].ok

\* C3: when the create call for the line item at position k is rejected, the
\* invocation fails with exactly k + 1 calls issued, all of them POST (no
\* delete, no call for a later item), and the order record and the records
\* of items 1..k-1 are in the store as they were written.
C3_FailFastNoRollback ==
  \A p \in procs :
    \A k \in 1..ItemCount(p) :
      (Len(got[p]) >= k + 1 /\ ~got[p][k + 1].ok)
      => /\ Len(sent[p]) = k + 1
         /\ Len(got[p]) = k + 1
         /\ \A j \in 1..Len(sent[p]) : sent[p][j].method = "POST"
         /\ \A j \in 1..k :
              /\ got[p][j].ok
              /\ \E r \in 1..Len(store) :
                   /\ store[r].id = got[p][j].id
                   /\ store[r].table = sent[p][j].table
                   /\ store[r].fields = sent[p][j].fields
         /\ \/ pc[p] = "failed"
            \/ pc[p] = "awaitItem" /\ net[p] = "response"

\* C3 witness: the first of several line items was rejected and the
\* invocation has failed, the order record still being in the store
C3_Witness ==
  \E p \in procs :
    /\ pc[p] = "failed"
    /\ ItemCount(p) >= 2
    /\ Len(got[p]) = 2
    /\ got[p][1].ok
    /\ ~got[p][2].ok
    /\ Len(store) = 1

\* C4: an order with neither order number nor id fails with no create call
\* issued.
C4_NoWriteWithoutIdentifier ==
  \A p \in procs :
    (Absent(order[p].order_number) /\ Absent(order[p].id))
    => /\ sent[p] = <<>>
       /\ pc[p] \in {"pending", "failed"}

\* C5: no line-items call is issued for a line item whose price does not
\* parse to a number or whose quantity is not a number.
C5_NoWriteForUnpricedItem ==
  \A p \in procs :
    \A j \in 1..Len(sent[p]) :
      sent[p][j].table = "line_items"
      => /\ ParseFloat(Items(p)[sent[p][j].index].price).t = "number"
         /\ Items(p)[sent[p][j].index].quantity.t = "number"

\* the text of an order number that is a number or a string
OrderNumberChars(v) == IF v.t = "number" THEN NumToChars(v.n, v.d) ELSE v.s

\* a Line Item ID without its final "-" and position
Stem(chars, position) ==
  SubSeq(chars, 1, Len(chars) - Len(NatToChars(position)) - 1)

\* C6: the j-th line-items call of an invocation carries a Line Item ID that
\* ends in "-" and j; it is the order number, "-" and j when the order has
\* an order number; the Line Item IDs of one invocation share what precedes
\* the position and are pairwise distinct.
C6_LineItemIds ==
  \A p \in procs :
    \A j \in 1..(Len(sent[p]) - 1) :
      LET fields == sent[p][j + 1].fields
      IN  /\ "Line Item ID" \in DOMAIN fields
          /\ fields["Line Item ID"].t = "string"
          /\ fields["Line Item ID"].s =
               Stem(fields["Line Item ID"].s, j) \o <<"-">> \o NatToChars(j)
          /\ order[p].order_number.t \in {"number", "string"}
             => Stem(fields["Line Item ID"].s, j) =
                  OrderNumberChars(order[p].order_number)
          /\ \A k \in 1..(j - 1) :
               /\ sent[p][k + 1].fields["Line Item ID"] # fields["Line Item ID"]
               /\ Stem(sent[p][k + 1].fields["Line Item ID"].s, k) =
                    Stem(fields["Line Item ID"].s, j)

\* C6 witness: order 1001 has issued its second line-items call, with
\* Line Item ID "1001-2"
C6_Witness ==
  \E p \in procs :
    /\ order[p].order_number = Num(1001, 0)
    /\ Len(sent[p]) >= 3
    /\ sent[p][3].fields["Line Item ID"] = Str(<<"1", "0", "0", "1", "-", "2">>)

\* C7: the order record sent to the store has no key whose value is the
\* empty string, null or undefined, and it has every key whose mapped value
\* is 0, false or a non-empty string.
C7_OrderRecordStripped ==
  \A p \in procs :
    sent[p] # <<>>
    => /\ \A key \in DOMAIN sent[p][1].fields :
            /\ sent[p][1].fields[key] # EmptyStr
            /\ sent[p][1].fields[key].t \notin {"null", "undefined"}
       /\ \A key \in DOMAIN OrderPayload(order[p]) :
            (\/ OrderPayload(order[p])[key] = Num(0, 0)
             \/ OrderPayload(order[p])[key] = Bool(FALSE)
             \/ OrderPayload(order[p])[key].t = "string"
                /\ OrderPayload(order[p])[key].s # <<>>)
            => key \in DOMAIN sent[p][1].fields

\* C8: the order record's Total Price is the numeric parse of total_price,
\* and 0 when total_price is absent or does not parse.
C8_TotalPriceDefaultsToZero ==
  \A p \in procs :
    sent[p] # <<>>
    => /\ "Total Price" \in DOMAIN sent[p][1].fields
       /\ sent[p][1].fields["Total Price"] =
            IF Absent(order[p].total_price)
               \/ ParseFloat(order[p].total_price).t # "number"
            THEN Num(0, 0)
            ELSE ParseFloat(order[p].total_price)

RECURSIVE OkPrefix(_)
\* the number of leading successful responses
OkPrefix(responses) ==
  IF responses # <<>> /\ Head(responses).ok
  THEN 1 + OkPrefix(Tail(responses))
  ELSE 0

\* how many calls an invocation running alone on order o has issued once it
\* has been given the responses g and has run up to its next await
SoloCallCount(o, g) ==
  IF OkPrefix(g) < Len(g) THEN OkPrefix(g) + 1
  ELSE IF g # <<>> /\ ~o.line_items.present THEN 1
  ELSE IF Len(g) + 1 <= Len(o.line_items.items) + 1 THEN Len(g) + 1
  ELSE Len(o.line_items.items) + 1

\* the j-th call of an invocation running alone on order o given responses g
SoloCall(o, g, j) ==
  IF j = 1 THEN Call("orders", 0, OrderBody(o))
  ELSE Call("line_items", j - 1,
            LineItemBody(o.line_items.items[j - 1], g[1].id, o.order_number,
                         j - 1))

\* how an invocation running alone on order o ends given all its responses g
SoloOutcome(o, g) ==
  IF AllOk(g) /\ o.line_items.present /\ Len(g) = Len(o.line_items.items) + 1
  THEN "done"
  ELSE "failed"

\* the state of invocation p: its calls, its responses and where it stands;
\* every step of an invocation changes its pc or its net
Own(p) == <<sent[p], got[p], pc[p], i[p], orderRecord[p], net[p]>>

\* the line-items calls of invocation p link to the record the store created
\* for its own order call and carry its own order number
OwnLinks(p) ==
  /\ Len(sent[p]) >= 2
     => /\ got[p][1].ok
        /\ \E r \in 1..Len(store) :
             /\ store[r].id = got[p][1].id
             /\ store[r].by = p
             /\ store[r].table = "orders"
             /\ store[r].fields = sent[p][1].fields
  /\ \A j \in 2..Len(sent[p]) :
       /\ sent[p][j].fields["Order ID"] = Arr1(got[p][1].id)
       /\ sent[p][j].fields["Line Item ID"] =
            Str(OrderNumberChars(order[p].order_number) \o <<"-">>
                \o NatToChars(j - 1))

\* invocation p has issued as many calls as it would have running alone with
\* the responses it got, and has ended as it would have
OwnRun(p) ==
  /\ Len(sent[p]) \in {SoloCallCount(order[p], got[p]) - 1,
                       SoloCallCount(order[p], got[p])}
  /\ Terminated(p)
     => /\ pc[p] = SoloOutcome(order[p], got[p])
        /\ Len(sent[p]) = SoloCallCount(order[p], got[p])

\* C9: with invocations interleaved at their awaits, every line-items call
\* links to the record the store created for the order call of its own
\* invocation and uses its own order number; a step changes the state of one
\* invocation only and removes no record from the store; and the calls and
\* the outcome of each invocation are those of the same invocation running
\* alone with the same responses: each call it issues is the call the lone
\* run issues next.
C9_NoInterference ==
  [][/\ SubSeq(store', 1, Len(store)) = store
     /\ \A p \in procs :
          /\ <<pc[p], net[p]>>' # <<pc[p], net[p]>>
             => /\ \A q \in procs \ {p} : Own(q)' = Own(q)
                /\ OwnLinks(p)'
                /\ OwnRun(p)'
          /\ Len(sent'[p]) # Len(sent[p])
             => /\ sent'[p] = Append(sent[p], Last(sent'[p]))
                /\ Last(sent'[p]) = SoloCall(order[p], got[p], Len(sent'[p]))
    ]_vars

\* C9 witness: two invocations have both ended successfully with their
\* store records interleaved: the other invocation's order record was created
\* between this one's order record and its line-item record
C9_Witness ==
  \E p \in procs, q \in procs :
    /\ p # q
    /\ pc[p] = "done"
    /\ pc[q] = "done"
    /\ Len(store) >= 4
    /\ store[1].by = p
    /\ store[2].by = q
    /\ store[3].by = p
    /\ store[3].table = "line_items"

\* C10: per-order processing moves only pending -> order-created,
\* order-created -> all-items-processed, pending -> failed or
\* order-created -> failed; once failed or all-items-processed it stays so
\* and issues no call; and a call that is issued is never for a table and
\* position an earlier call of the invocation was for.
C10_StateMachineNoRetry ==
  [][\A p \in procs :
       /\ \/ Status(p)' = Status(p)
          \/ <<Status(p), Status(p)'>> \in
               {<<"pending", "order-created">>,
                <<"order-created", "all-items-processed">>,
                <<"pending", "failed">>,
                <<"order-created", "failed">>}
       /\ Terminated(p) => (sent'[p] = sent[p] /\ pc'[p] = pc[p])
       /\ sent'[p] # sent[p]
          => /\ Len(sent'[p]) = Len(sent[p]) + 1
             /\ SubSeq(sent'[p], 1, Len(sent[p])) = sent[p]
             /\ \A j \in 1..Len(sent[p]) :
                  <<sent[p][j].table, sent[p][j].index>> #
                    <<Last(sent'[p]).table, Last(sent'[p]).index>>
     ]_vars

\* C10 witness: an invocation has failed after its order record was created
\* and a line item written
C10_Witness ==
  \E p \in procs :
    /\ Status(p) = "failed"
    /\ Len(got[p]) >= 3
    /\ got[p][1].ok
    /\ got[p][2].ok

=============================================================================
